---- MODULE Spec2Model ----
(***************************************************************************)
(* A model of flake (src/src/main.rs): the `sync` subcommand mirrors the   *)
(* files tracked in the store ~/.snowflakes from the home directory, then  *)
(* commits the store when it is dirty and pushes when it is clean.         *)
(*                                                                         *)
(* File names and URLs are sequences of characters, so that the prefix     *)
(* tests of the code (starts_with) are computed and not assumed.  A path   *)
(* is a sequence of names relative to both the home directory and the      *)
(* store.  The contents of a file is an opaque value; "none" stands for a  *)
(* path that does not exist.                                               *)
(***************************************************************************)
EXTENDS Integers, Sequences, FiniteSets, TLC

VARIABLES
    pc,           \* position of the single thread of `sync`
    exitCode,     \* -1 while running, 1 after process::exit(1), 101 after a panic
    storage,      \* what ~/.snowflakes is: "absent", "file" or "dir"
    home,         \* the home directory: path -> contents
    store,        \* the working tree of the store (with .git/ files): path -> contents
    refs,         \* local references: refname -> commit
    remote,       \* references of the remote origin: refname -> commit
    nextId,       \* the next fresh commit id
    net,          \* network operations performed so far, in order
    warned,       \* paths a "[WARNING] Unable to sync file" line was printed for in the pass
    before,       \* the store as the last sync_files found it
    walked,       \* paths the last sync_files handed to sync_path
    passDirty,    \* result of statuses.len() > 0 in the pass: "unknown", "dirty", "clean"
    passCommits,  \* commits created by the current pass
    passPushes,   \* pushes performed by the current pass
    ticks,        \* ticks received
    edits,        \* edits of the home directory made by the user
    url,          \* the repository url
    username,     \* github.username of the git configuration
    ss,           \* the state of the secret service
    cred,         \* the outcome of the last git_credentials call
    hist          \* what the run has done so far: passes started, passes that found
                  \* the status non-empty, the previous pass, the failed operation

vars == <<pc, exitCode, storage, home, store, refs, remote, nextId, net, warned,
          before, walked, passDirty, passCommits, passPushes, ticks, edits,
          url, username, ss, cred, hist>>

-----------------------------------------------------------------------------
(* Bounds *)

MaxTicks == 1
MaxEdits == 1

-----------------------------------------------------------------------------
(* Names, paths and contents *)

STORE_NAME == <<".", "s", "n", "o", "w", "f", "l", "a", "k", "e", "s">>

GitPrefix == <<".", "g", "i", "t">>

N_git == <<".", "g", "i", "t">>
N_gitconfig == <<".", "g", "i", "t", "c", "o", "n", "f", "i", "g">>
N_vimrc == <<".", "v", "i", "m", "r", "c">>
N_bashrc == <<".", "b", "a", "s", "h", "r", "c">>
N_description == <<"d", "e", "s", "c", "r", "i", "p", "t", "i", "o", "n">>

P_vimrc == <<N_vimrc>>
P_bashrc == <<N_bashrc>>
P_gitconfig == <<N_gitconfig>>
P_meta == <<N_git, N_description>>

\* paths git keeps in trees (everything outside the .git directory)
TreePaths == {P_vimrc, P_bashrc, P_gitconfig}

Paths == TreePaths \cup {P_meta}

NoFile == "none"

Contents == {"A", "B"}

MetaContents == {"D"}

\* the trees of the remote at the start: .gitconfig holds "A", every other
\* file is absent or holds "A"
Trees == {t \in [TreePaths -> {"A", NoFile}] : t[P_gitconfig] = "A"}

EmptyTree == [p \in TreePaths |-> NoFile]

StartsWith(s, prefix) ==
    /\ Len(s) >= Len(prefix)
    /\ SubSeq(s, 1, Len(prefix)) = prefix

-----------------------------------------------------------------------------
(* URLs, the secret service and git_credentials *)

HttpsPrefix == <<"h", "t", "t", "p", "s", ":", "/", "/">>

U_https == <<"h", "t", "t", "p", "s", ":", "/", "/", "g", "/", "r">>
U_http == <<"h", "t", "t", "p", ":", "/", "/", "g", "/", "r">>
U_ssh == <<"g", "i", "t", "@", "g", ":", "r">>
U_short == <<"h", "t", "t", "p", "s">>

Urls == {U_https, U_http, U_ssh, U_short}

Usernames == {"alice", "bob"}

\* secrets as byte strings: "A", "B", e-acute (two bytes), and two that are not UTF-8
SecretBytes == {<<65>>, <<66>>, <<195, 169>>, <<255>>, <<195>>}

Items == [secretOk : {TRUE}, bytes : SecretBytes]
             \cup [secretOk : {FALSE}, bytes : {<<>>}]

\* reachable: SecretService::new succeeds; searchOk: search_items returns Ok;
\* items: what the search matched; secretOk: get_secret returns Ok
SecretStates ==
    [reachable : {FALSE}, searchOk : {FALSE}, items : {<<>>}]
        \cup [reachable : {TRUE}, searchOk : {FALSE}, items : {<<>>}]
        \cup [reachable : {TRUE}, searchOk : {TRUE},
              items : {<<>>} \cup {<<i>> : i \in Items}
                         \cup {<<i, j>> : i \in Items, j \in {[secretOk |-> TRUE, bytes |-> <<66>>]}}]

InRange(b, lo, hi) == lo <= b /\ b <= hi

RECURSIVE Utf8ValidFrom(_, _)
Utf8ValidFrom(b, i) ==
    LET cont(k) == k <= Len(b) /\ InRange(b[k], 128, 191) IN
    IF i > Len(b) THEN TRUE
    ELSE IF b[i] < 128 THEN Utf8ValidFrom(b, i + 1)
    ELSE IF InRange(b[i], 194, 223) THEN cont(i + 1) /\ Utf8ValidFrom(b, i + 2)
    ELSE IF InRange(b[i], 224, 239)
         THEN /\ cont(i + 1) /\ cont(i + 2)
              /\ (b[i] = 224 => b[i + 1] >= 160)
              /\ (b[i] = 237 => b[i + 1] <= 159)
              /\ Utf8ValidFrom(b, i + 3)
    ELSE IF InRange(b[i], 240, 244)
         THEN /\ cont(i + 1) /\ cont(i + 2) /\ cont(i + 3)
              /\ (b[i] = 240 => b[i + 1] >= 144)
              /\ (b[i] = 244 => b[i + 1] <= 143)
              /\ Utf8ValidFrom(b, i + 4)
    ELSE FALSE

\* String::from_utf8(bytes) is Ok
Utf8Valid(b) == Utf8ValidFrom(b, 1)

SshPrivateKey == "~/.ssh/id_rsa"
SshPublicKey == "~/.ssh/id_rsa.pub"

MsgUnableToConnect == "Unable to connect with the secret service"
MsgNotInStore == "GitHub credentials are not in the store"
MsgMissingToken == "Missing access token"

NoCred ==
    [kind |-> "none", user |-> "", secret |-> <<>>, publickey |-> "",
     privatekey |-> "", msg |-> "", touched |-> {}]

CredErr(m) == [NoCred EXCEPT !.kind = "Err", !.msg = m, !.touched = {"secret_service"}]

CredPanic == [NoCred EXCEPT !.kind = "Panic", !.touched = {"secret_service"}]

CredToken(u, t) ==
    [NoCred EXCEPT !.kind = "Token", !.user = u, !.secret = t,
                   !.touched = {"secret_service"}]

CredKeyPair(u, pub, priv) ==
    [NoCred EXCEPT !.kind = "KeyPair", !.user = u, !.publickey = pub,
                   !.privatekey = priv, !.touched = {"ssh_key_paths"}]

\* the scheme test with the prefix "http"
IsHttps_Http(u) == StartsWith(u, <<"h", "t", "t", "p">>)

IsHttps(u) == StartsWith(u, HttpsPrefix)

GitCredentials(user, u, s) ==
    IF IsHttps(u)
    THEN IF ~s.reachable THEN CredErr(MsgUnableToConnect)
         ELSE IF ~s.searchOk THEN CredErr(MsgNotInStore)
         ELSE IF Len(s.items) = 0 THEN CredPanic          \* items.get(0).unwrap()
         ELSE IF ~s.items[1].secretOk THEN CredErr(MsgMissingToken)
         ELSE IF ~Utf8Valid(s.items[1].bytes) THEN CredPanic   \* from_utf8(..).unwrap()
         ELSE CredToken(user, s.items[1].bytes)
    ELSE CredKeyPair("git", SshPublicKey, SshPrivateKey)

-----------------------------------------------------------------------------
(* The walk of sync_files and sync_path *)

\* is_git_object that tests the whole name
IsGitObject_Exact(name) == name = GitPrefix

IsGitObject(name) == StartsWith(name, GitPrefix)

\* a walk over every path, tracked in the store or not
Walker_AllPaths(st) ==
    {p \in Paths : \A i \in 1..Len(p) : ~IsGitObject(p[i])}

\* entries the filtered walk yields as files: no component of the path, nor the
\* root of the walk, is filtered out
Walker(st) ==
    {p \in Paths : /\ st[p] # NoFile
                   /\ ~IsGitObject(STORE_NAME)
                   /\ \A i \in 1..Len(p) : ~IsGitObject(p[i])}

\* sync_path that leaves the store file alone when the home file exists
SyncPath_NoCopy(h, st, p) == IF h[p] # NoFile THEN st[p] ELSE NoFile

\* sync_path that leaves the store file alone when the home file is gone
SyncPath_NoRemove(h, st, p) == IF h[p] # NoFile THEN h[p] ELSE st[p]

\* sync_path with the arguments of fs::copy swapped
SyncPathHome_Swapped(h, st, p) == IF h[p] # NoFile THEN st[p] ELSE h[p]

\* what a successful sync_path leaves at the home path p: it is only read
SyncPathHome(h, st, p) == h[p]

\* what a successful sync_path leaves at the store path p: the copy of the
\* home file when it exists, nothing otherwise
SyncPath(h, st, p) == IF h[p] # NoFile THEN h[p] ELSE NoFile

-----------------------------------------------------------------------------
(* The repository: references, commits, reset, status and push *)

RefMaster == "refs/heads/master"          \* what HEAD points at
RefOrigin == "refs/remotes/origin/master"

RefNames == {RefMaster, RefOrigin}

NoCommit == [id |-> 0, tree |-> EmptyTree]

NoRefs == [r \in RefNames |-> NoCommit]

\* the tracked part of a working tree
TreeOf(st) == [p \in TreePaths |-> st[p]]

\* a fresh clone: the files of the tree, and the metadata directory
Checkout(tree) ==
    [p \in Paths |-> IF p \in TreePaths THEN tree[p] ELSE "D"]

\* repo.reset(.., Hard, ..): files of the target are written, files of the old
\* index that the target lacks are removed, untracked files stay
ResetHard(st, oldTree, newTree) ==
    [p \in Paths |->
        IF p \notin TreePaths THEN st[p]
        ELSE IF newTree[p] # NoFile THEN newTree[p]
        ELSE IF oldTree[p] # NoFile THEN NoFile
        ELSE st[p]]

\* repo.statuses(None) is non-empty
Dirty(st, tree) == \E p \in TreePaths : st[p] # tree[p]

\* the refspec given to remote.push, as <<src>> or <<src, dst>>
PushRefspec == <<RefOrigin>>

RefspecSrc(spec) == spec[1]

RefspecDst(spec) == IF Len(spec) > 1 THEN spec[2] ELSE spec[1]

\* the references of the remote after a push of spec
Pushed(lrefs, rrefs, spec) ==
    [rrefs EXCEPT ![RefspecDst(spec)] = lrefs[RefspecSrc(spec)]]

\* the local references after a push of spec: the tracking reference
\* follows a push to the branch it tracks
PushTips(lrefs, spec) ==
    IF RefspecDst(spec) = RefMaster
    THEN [lrefs EXCEPT ![RefOrigin] = lrefs[RefspecSrc(spec)]]
    ELSE lrefs

-----------------------------------------------------------------------------
(* Initial states *)

\* the home directories: two contents for .vimrc, one for .bashrc and for
\* .gitconfig (the one no tree of the remote has at the start), no .git directory
HomeStates ==
    {h \in [Paths -> Contents \cup {NoFile}] :
        h[P_meta] = NoFile /\ h[P_bashrc] # "B" /\ h[P_gitconfig] # "A"}

\* the working trees an existing store is opened with: the tree of its HEAD,
\* with at most one file added, changed or removed since
StoreStates(tree) ==
    {st \in [Paths -> Contents \cup MetaContents \cup {NoFile}] :
        /\ st[P_meta] = "D"
        /\ TreeOf(st) \in Trees
        /\ Cardinality({p \in TreePaths : st[p] # tree[p]}) <= 1}

NoStore == [p \in Paths |-> NoFile]

SecretWithToken ==
    [reachable |-> TRUE, searchOk |-> TRUE,
     items |-> <<[secretOk |-> TRUE, bytes |-> <<65>>]>>]

\* the secret service after `flake auth` with another token
SecretWithNewToken ==
    [reachable |-> TRUE, searchOk |-> TRUE,
     items |-> <<[secretOk |-> TRUE, bytes |-> <<66>>]>>]

\* the contents of .vimrc in a commit somebody else pushes to the remote
RemoteContent == "R"

NoHist ==
    [started |-> 0, dirty |-> 0, prevDirty |-> "none", prevWarned |-> FALSE,
     intervening |-> FALSE, pending |-> FALSE, failed |-> "none"]

\* the url and the secret service of a run
MainSettings ==
    {<<U_https, SecretWithToken>>,
     <<U_https, [reachable |-> TRUE, searchOk |-> TRUE, items |-> <<>>]>>,
     <<U_https, [reachable |-> FALSE, searchOk |-> FALSE, items |-> <<>>]>>,
     <<U_ssh, SecretWithToken>>}

Init ==
    /\ pc = "init_storage"
    /\ exitCode = -1
    /\ storage \in {"absent", "file", "dir"}
    /\ home \in HomeStates
    /\ \E c \in {NoCommit} \cup {[id |-> 1, tree |-> t] : t \in Trees} :
          /\ remote = [NoRefs EXCEPT ![RefMaster] = c]
          /\ IF storage = "dir"
             THEN /\ store \in StoreStates(c.tree)
                  /\ refs = [r \in RefNames |-> c]
             ELSE /\ store = NoStore
                  /\ refs = NoRefs
    /\ nextId = 2
    /\ net = <<>>
    /\ warned = {}
    /\ before = store
    /\ walked = {}
    /\ passDirty = "unknown"
    /\ passCommits = 0
    /\ passPushes = 0
    /\ ticks = 0
    /\ edits = 0
    /\ \E setting \in MainSettings : url = setting[1] /\ ss = setting[2]
    /\ username = "alice"
    /\ cred = NoCred
    /\ hist = NoHist

-----------------------------------------------------------------------------
(* The steps of sync *)

Exit(code) ==
    /\ pc' = (IF code = 101 THEN "panicked" ELSE "exited")
    /\ exitCode' = code

\* the operation op has returned an error or panicked
Failed(op) == hist' = [hist EXCEPT !.failed = op]

\* an entry of the log of network operations: the operation and the
\* credential its callback handed to the transport (NoCred when not asked)
NetOp(op, c) == [op |-> op, cred |-> c]

\* storage.exists() that never finds the path
Exists_Never(s) == FALSE

\* storage.exists()
Exists(s) == s # "absent"

\* storage.is_file()
IsFile(s) == s = "file"

\* init_storage, called at the start of sync
InitStorage ==
    /\ pc = "init_storage"
    /\ UNCHANGED <<home, remote, nextId, warned, before, walked, passDirty,
                   passCommits, passPushes, ticks, edits, url, username, ss, cred>>
    /\ IF Exists(storage) /\ IsFile(storage)
       THEN /\ Exit(1)
            /\ Failed("init_storage")
            /\ UNCHANGED <<storage, store, refs, net>>
       ELSE IF Exists(storage)
       THEN /\ \E ok \in BOOLEAN :
                 IF ok THEN pc' = "reset_master" /\ exitCode' = exitCode /\ hist' = hist
                        ELSE Exit(1) /\ Failed("init_storage")
            /\ UNCHANGED <<storage, store, refs, net>>
       ELSE /\ net' = Append(net, NetOp("clone", NoCred))
            /\ \E ok \in BOOLEAN :
                 IF ok
                 THEN /\ storage' = "dir"
                      /\ store' = Checkout(remote[RefMaster].tree)
                      /\ refs' = [r \in RefNames |-> remote[RefMaster]]
                      /\ pc' = "reset_master"
                      /\ exitCode' = exitCode
                      /\ hist' = hist
                 ELSE /\ Exit(1)
                      /\ Failed("init_storage")
                      /\ UNCHANGED <<storage, store, refs>>

\* a callback that keeps the token it resolved before
Callback_Cached(asked) ==
    cred' = IF asked /\ cred.kind # "Token"
            THEN GitCredentials(username, url, ss) ELSE cred

\* the credentials callback of a fetch or a push: the transport may or may not ask
Callback(asked) ==
    cred' = IF asked THEN GitCredentials(username, url, ss) ELSE cred

\* reset_master, the first half of init_sync
ResetMaster ==
    /\ pc = "reset_master"
    /\ UNCHANGED <<storage, home, remote, nextId, warned, before, walked, passDirty,
                   passCommits, passPushes, ticks, edits, url, username, ss>>
    /\ \/ \* find_remote("origin") fails
          /\ Exit(1)
          /\ Failed("reset_master")
          /\ UNCHANGED <<store, refs, net, cred>>
       \/ \E asked \in BOOLEAN, ok \in BOOLEAN :
               /\ Callback(asked)
               /\ net' = Append(net, NetOp("fetch", IF asked THEN cred' ELSE NoCred))
               /\ IF cred'.kind = "Panic" /\ asked
                  THEN Exit(101) /\ Failed("reset_master") /\ UNCHANGED <<store, refs>>
                  ELSE IF (asked /\ cred'.kind = "Err") \/ ~ok
                  THEN Exit(1) /\ Failed("reset_master") /\ UNCHANGED <<store, refs>>
                  ELSE LET fetched == IF remote[RefMaster] = NoCommit THEN refs
                                      ELSE [refs EXCEPT ![RefOrigin] = remote[RefMaster]]
                       IN IF fetched[RefOrigin] = NoCommit
                          THEN /\ Exit(1)        \* refname_to_id fails
                               /\ Failed("reset_master")
                               /\ refs' = fetched
                               /\ store' = store
                          ELSE /\ refs' = [fetched EXCEPT ![RefMaster] = fetched[RefOrigin]]
                               /\ store' = ResetHard(store, refs[RefMaster].tree,
                                                     fetched[RefOrigin].tree)
                               /\ pc' = "sync_files"
                               /\ exitCode' = exitCode
                               /\ hist' = hist

\* sync_files, the first call of sync_repo: the whole walk; done are the files
\* reached before a walk error (entry.unwrap() panics), failed the files
\* sync_path returned an error for
SyncFiles ==
    /\ pc = "sync_files"
    /\ UNCHANGED <<storage, refs, remote, nextId, net, passDirty,
                   passCommits, passPushes, ticks, edits, url, username, ss, cred>>
    /\ \E walkError \in BOOLEAN, done \in SUBSET Walker(store) :
         \E failed \in SUBSET done :
            /\ ~walkError => done = Walker(store)
            /\ store' = [p \in Paths |->
                            IF p \in done \ failed THEN SyncPath(home, store, p) ELSE store[p]]
            /\ home' = [p \in Paths |->
                            IF p \in done \ failed THEN SyncPathHome(home, store, p) ELSE home[p]]
            /\ warned' = failed
            /\ walked' = done
            /\ before' = store
            /\ hist' = [hist EXCEPT !.started = hist.started + 1,
                                    !.failed = IF walkError THEN "sync_files" ELSE hist.failed]
            /\ IF walkError THEN Exit(101)
                            ELSE pc' = "statuses" /\ exitCode' = exitCode

\* sync_repo that goes on to the tick after a failed status
Statuses_Retry ==
    /\ pc = "statuses"
    /\ UNCHANGED <<storage, home, store, refs, remote, nextId, net, warned, before,
                   walked, passCommits, passPushes, ticks, edits, url, username, ss, cred>>
    /\ Failed("statuses")
    /\ pc' = "tick_wait"
    /\ UNCHANGED <<exitCode, passDirty>>

\* repo.statuses(None) and the branch of sync_repo
Statuses ==
    /\ pc = "statuses"
    /\ UNCHANGED <<storage, home, store, refs, remote, nextId, net, warned, before,
                   walked, passCommits, passPushes, ticks, edits, url, username, ss, cred>>
    /\ \E ok \in BOOLEAN :
         IF ~ok THEN Exit(1) /\ Failed("statuses") /\ UNCHANGED passDirty
         ELSE /\ exitCode' = exitCode
              /\ IF Dirty(store, refs[RefMaster].tree)
                 THEN /\ passDirty' = "dirty"
                      /\ pc' = "commit_updates"
                      /\ hist' = [hist EXCEPT !.dirty = hist.dirty + 1]
                 ELSE /\ passDirty' = "clean"
                      /\ pc' = "push_master"
                      /\ hist' = hist

\* commit_updates in a sync_repo that does not return after it
CommitUpdates_FallThrough ==
    /\ pc = "commit_updates"
    /\ UNCHANGED <<storage, home, store, remote, net, warned, before, walked, passDirty,
                   passPushes, ticks, edits, url, username, ss, cred, hist>>
    /\ refs[RefMaster] # NoCommit
    /\ refs' = [refs EXCEPT ![RefMaster] = [id |-> nextId, tree |-> TreeOf(store)]]
    /\ nextId' = nextId + 1
    /\ passCommits' = passCommits + 1
    /\ pc' = "push_master"
    /\ exitCode' = exitCode

\* commit_updates in a loop that starts the next sync_repo without a tick
CommitUpdates_NoWait ==
    /\ pc = "commit_updates"
    /\ UNCHANGED <<storage, home, store, remote, net, warned, before, walked, passDirty,
                   passPushes, ticks, edits, url, username, ss, cred, hist>>
    /\ refs[RefMaster] # NoCommit
    /\ hist.started <= MaxTicks
    /\ refs' = [refs EXCEPT ![RefMaster] = [id |-> nextId, tree |-> TreeOf(store)]]
    /\ nextId' = nextId + 1
    /\ passCommits' = passCommits + 1
    /\ pc' = "sync_files"
    /\ exitCode' = exitCode

\* commit_updates without index.add_all: the commit has the tree of its parent
CommitUpdates_NoAdd ==
    /\ pc = "commit_updates"
    /\ UNCHANGED <<storage, home, store, remote, net, warned, before, walked, passDirty,
                   passPushes, ticks, edits, url, username, ss, cred, hist>>
    /\ refs[RefMaster] # NoCommit
    /\ refs' = [refs EXCEPT ![RefMaster] = [id |-> nextId, tree |-> @.tree]]
    /\ nextId' = nextId + 1
    /\ passCommits' = passCommits + 1
    /\ pc' = "tick_wait"
    /\ exitCode' = exitCode

\* commit_updates
CommitUpdates ==
    /\ pc = "commit_updates"
    /\ UNCHANGED <<storage, home, store, remote, net, warned, before, walked, passDirty,
                   passPushes, ticks, edits, url, username, ss, cred>>
    /\ \E ok \in BOOLEAN :
         IF ~ok \/ refs[RefMaster] = NoCommit
         THEN Exit(1) /\ Failed("commit_updates") /\ UNCHANGED <<refs, nextId, passCommits>>
         ELSE /\ refs' = [refs EXCEPT ![RefMaster] = [id |-> nextId, tree |-> TreeOf(store)]]
              /\ nextId' = nextId + 1
              /\ passCommits' = passCommits + 1
              /\ pc' = "tick_wait"
              /\ exitCode' = exitCode
              /\ hist' = hist

\* push_master
PushMaster ==
    /\ pc = "push_master"
    /\ UNCHANGED <<storage, home, store, nextId, warned, before, walked, passDirty,
                   passCommits, ticks, edits, url, username, ss>>
    /\ \/ \* find_remote("origin") fails
          /\ Exit(1)
          /\ Failed("push_master")
          /\ UNCHANGED <<refs, remote, net, cred, passPushes>>
       \/ /\ passPushes' = passPushes + 1
          /\ \E asked \in BOOLEAN, ok \in BOOLEAN :
               /\ Callback(asked)
               /\ net' = Append(net, NetOp("push", IF asked THEN cred' ELSE NoCred))
               /\ IF cred'.kind = "Panic" /\ asked
                  THEN Exit(101) /\ Failed("push_master") /\ UNCHANGED <<refs, remote>>
                  ELSE IF (asked /\ cred'.kind = "Err") \/ ~ok
                          \/ refs[RefspecSrc(PushRefspec)] = NoCommit
                  THEN Exit(1) /\ Failed("push_master") /\ UNCHANGED <<refs, remote>>
                  ELSE /\ remote' = Pushed(refs, remote, PushRefspec)
                       /\ refs' = PushTips(refs, PushRefspec)
                       /\ pc' = "tick_wait"
                       /\ exitCode' = exitCode
                       /\ hist' = hist

\* a loop of sync that runs init_sync on every tick
Tick_Reset ==
    /\ pc = "tick_wait"
    /\ ticks < MaxTicks
    /\ ticks' = ticks + 1
    /\ pc' = "reset_master"
    /\ passDirty' = "unknown"
    /\ passCommits' = 0
    /\ passPushes' = 0
    /\ UNCHANGED <<exitCode, storage, home, store, refs, remote, nextId, net, warned,
                   before, walked, edits, url, username, ss, cred, hist>>

\* tick.recv() returns and the loop of sync starts the next sync_repo
Tick ==
    /\ pc = "tick_wait"
    /\ ticks < MaxTicks
    /\ ticks' = ticks + 1
    /\ pc' = "sync_files"
    /\ passDirty' = "unknown"
    /\ passCommits' = 0
    /\ passPushes' = 0
    /\ hist' = [hist EXCEPT !.prevDirty = passDirty,
                            !.prevWarned = warned # {},
                            !.intervening = hist.pending,
                            !.pending = FALSE]
    /\ UNCHANGED <<exitCode, storage, home, store, refs, remote, nextId, net, warned,
                   before, walked, edits, url, username, ss, cred>>

\* the user edits, creates or deletes a file of the home directory while the
\* program waits for the tick
HomeEdit ==
    /\ pc = "tick_wait"
    /\ edits < MaxEdits
    /\ edits' = edits + 1
    /\ \E h \in HomeStates :
         /\ Cardinality({p \in Paths : h[p] # home[p]}) = 1
         /\ home' = h
    /\ hist' = [hist EXCEPT !.pending = TRUE]
    /\ UNCHANGED <<pc, exitCode, storage, store, refs, remote, nextId, net, warned,
                   before, walked, passDirty, passCommits, passPushes, ticks,
                   url, username, ss, cred>>

\* somebody else pushes a commit to the master branch of the remote while the
\* program waits for the tick
RemoteAdvance ==
    /\ pc = "tick_wait"
    /\ edits < MaxEdits
    /\ remote[RefMaster] # NoCommit
    /\ remote[RefMaster].tree[P_vimrc] # RemoteContent
    /\ edits' = edits + 1
    /\ remote' = [remote EXCEPT ![RefMaster] =
                     [id |-> -1, tree |-> [@.tree EXCEPT ![P_vimrc] = RemoteContent]]]
    /\ UNCHANGED <<pc, exitCode, storage, home, store, refs, nextId, net, warned,
                   before, walked, passDirty, passCommits, passPushes, ticks,
                   url, username, ss, cred, hist>>

\* the user runs `flake auth` with another token while the program waits for
\* the tick: the item is created with replace = true
Auth ==
    /\ pc = "tick_wait"
    /\ edits < MaxEdits
    /\ ss.reachable
    /\ ss # SecretWithNewToken
    /\ edits' = edits + 1
    /\ ss' = SecretWithNewToken
    /\ UNCHANGED <<pc, exitCode, storage, home, store, refs, remote, nextId, net, warned,
                   before, walked, passDirty, passCommits, passPushes, ticks,
                   url, username, cred, hist>>

Next ==
    \/ InitStorage
    \/ ResetMaster
    \/ SyncFiles
    \/ Statuses
    \/ CommitUpdates
    \/ PushMaster
    \/ Tick
    \/ HomeEdit
    \/ RemoteAdvance
    \/ Auth

Spec == Init /\ [][Next]_vars

-----------------------------------------------------------------------------
(* git_credentials on its own: every url, username and secret service state *)

CredInit ==
    /\ pc = "cred_idle"
    /\ exitCode = -1
    /\ storage = "dir"
    /\ home = [p \in Paths |-> NoFile]
    /\ store = NoStore
    /\ refs = NoRefs
    /\ remote = NoRefs
    /\ nextId = 2
    /\ net = <<>>
    /\ warned = {}
    /\ before = NoStore
    /\ walked = {}
    /\ passDirty = "unknown"
    /\ passCommits = 0
    /\ passPushes = 0
    /\ ticks = 0
    /\ edits = 0
    /\ url \in Urls
    /\ username \in Usernames
    /\ ss \in SecretStates
    /\ cred = NoCred
    /\ hist = NoHist

CredResolve ==
    /\ pc = "cred_idle"
    /\ cred' = GitCredentials(username, url, ss)
    /\ pc' = "cred_done"
    /\ UNCHANGED <<exitCode, storage, home, store, refs, remote, nextId, net, warned,
                   before, walked, passDirty, passCommits, passPushes, ticks, edits,
                   url, username, ss, hist>>

CredNext == CredResolve

CredSpec == CredInit /\ [][CredNext]_vars

-----------------------------------------------------------------------------
(* Properties *)

\* some component of the path begins with ".git"
DotGitNamed(p) ==
    \E i \in 1..Len(p) :
        Len(p[i]) >= 4 /\ SubSeq(p[i], 1, 4) = <<".", "g", "i", "t">>

\* the url begins with "https://"
HttpsUrl(u) ==
    Len(u) >= 8 /\ SubSeq(u, 1, 8) = <<"h", "t", "t", "p", "s", ":", "/", "/">>

\* sync_files has returned and nothing has run since
Reconciled == pc = "statuses"

\* a pass (sync_repo) has returned Ok and nothing has run since
PassCompleted == pc = "tick_wait"

\* C1: a pass that completes without error has found the status either
\* non-empty, and then created exactly one commit and pushed nothing, or empty,
\* and then pushed exactly once and committed nothing; never both, never neither.
C1_CommitXorPush ==
    PassCompleted =>
        /\ passDirty \in {"dirty", "clean"}
        /\ passDirty = "dirty" => passCommits = 1 /\ passPushes = 0
        /\ passDirty = "clean" => passPushes = 1 /\ passCommits = 0
        /\ passCommits + passPushes = 1

\* a clean pass has pushed after an earlier pass committed
C1_Witness ==
    /\ PassCompleted
    /\ passDirty = "clean"
    /\ passPushes = 1
    /\ passCommits = 0
    /\ nextId > 2
    /\ ticks > 0

\* C2: after the push of a pass that found the status empty, the master branch
\* of the remote points at the local HEAD commit.
C2_PushDelivers ==
    (PassCompleted /\ passPushes = 1) => remote[RefMaster] = refs[RefMaster]

\* C3: after sync_files, every store file whose path is a file of the home
\* directory has the contents of that file, whatever its name.
C3_MirrorAll ==
    Reconciled =>
        \A p \in Paths :
            (before[p] # NoFile /\ home[p] # NoFile) => store[p] = home[p]

\* C3, amended: after sync_files, every store file whose path is a file of the
\* home directory, has no component beginning with ".git" and got no warning
\* has the contents of the home file.
C3_MirrorTracked ==
    Reconciled =>
        \A p \in Paths :
            (before[p] # NoFile /\ home[p] # NoFile /\ ~DotGitNamed(p) /\ p \notin warned)
                => store[p] = home[p]

\* sync_files has overwritten a store file with the differing home file
C3_Witness ==
    /\ Reconciled
    /\ before[P_vimrc] # NoFile
    /\ home[P_vimrc] # NoFile
    /\ before[P_vimrc] # home[P_vimrc]
    /\ store[P_vimrc] = home[P_vimrc]

\* C4: after sync_files, no store file whose path does not exist in the home
\* directory is left, for every path under the store.
C4_DeleteAll ==
    Reconciled =>
        \A p \in Paths :
            (before[p] # NoFile /\ home[p] = NoFile) => store[p] = NoFile

\* C4, amended: after sync_files, no store file whose path does not exist in
\* the home directory, has no component beginning with ".git" and got no
\* warning is left.
C4_DeleteTracked ==
    Reconciled =>
        \A p \in Paths :
            (before[p] # NoFile /\ home[p] = NoFile /\ ~DotGitNamed(p) /\ p \notin warned)
                => store[p] = NoFile

\* sync_files has removed a store file that the home directory lacks
C4_Witness ==
    /\ Reconciled
    /\ before[P_vimrc] # NoFile
    /\ home[P_vimrc] = NoFile
    /\ store[P_vimrc] = NoFile

\* C5: after sync_files, every file of the home directory is in the store with
\* the same contents, also when the store did not hold it before.
C5_AllHomeFilesMirrored ==
    Reconciled =>
        \A p \in Paths : home[p] # NoFile => store[p] = home[p]

\* C5, amended: after sync_files, a file of the home directory that the store
\* did not hold before is still not in the store; one the store held, with no
\* component beginning with ".git" and no warning, is in the store with the
\* same contents.
C5_OnlyTrackedMirrored ==
    Reconciled =>
        \A p \in Paths :
            home[p] # NoFile =>
                /\ before[p] = NoFile => store[p] = NoFile
                /\ (before[p] # NoFile /\ ~DotGitNamed(p) /\ p \notin warned)
                      => store[p] = home[p]

\* sync_files has left a home file out of the store and mirrored another
C5_Witness ==
    /\ Reconciled
    /\ home[P_vimrc] # NoFile
    /\ before[P_vimrc] = NoFile
    /\ store[P_vimrc] = NoFile
    /\ home[P_gitconfig] # NoFile
    /\ walked # {}

\* C6: sync_files neither visits nor changes a store entry that has a
\* component beginning with ".git", whatever the home directory holds.
C6_MetadataExclusion ==
    [][pc = "sync_files" =>
          \A p \in Paths :
              DotGitNamed(p) => store'[p] = store[p] /\ p \notin walked']_vars

\* sync_files has run over a store whose .git entries differ from the home
\* directory: one the home directory lacks, one it holds with other contents
C6_Witness ==
    /\ Reconciled
    /\ walked # {}
    /\ store[P_meta] # NoFile
    /\ home[P_meta] = NoFile
    /\ store[P_gitconfig] # NoFile
    /\ home[P_gitconfig] # NoFile
    /\ store[P_gitconfig] # home[P_gitconfig]

\* C7: no failure during sync_files aborts the pass: every file of the walk
\* is handed to sync_path, the files without a warning are reconciled, and the
\* pass goes on to the status.
C7_FailureNeverAborts ==
    [][pc = "sync_files" =>
          /\ pc' = "statuses"
          /\ walked' = Walker(store)
          /\ \A p \in Walker(store) \ warned' : store'[p] = SyncPath(home, store, p)]_vars

\* C8: when the store path is a regular file, the process exits with status 1
\* out of init_storage and performs no clone, fetch or push.
C8_StorageConflict ==
    storage = "file" =>
        /\ net = <<>>
        /\ pc \in {"init_storage", "exited"}
        /\ pc = "exited" => exitCode = 1

\* the process has exited on a store path that is a file
C8_Witness ==
    /\ storage = "file"
    /\ pc = "exited"
    /\ exitCode = 1

\* C9: for a url beginning with "https://" git_credentials never touches the
\* ssh key paths nor yields a key pair, and yields the token credential of the
\* username and the secret when the secret service supplies the secret; for
\* any other url it yields the key pair of user "git" at ~/.ssh/id_rsa[.pub]
\* and never queries the secret service.
C9_CredentialDispatch ==
    pc = "cred_done" =>
        IF HttpsUrl(url)
        THEN /\ cred.kind # "KeyPair"
             /\ "ssh_key_paths" \notin cred.touched
             /\ (/\ ss.reachable /\ ss.searchOk /\ Len(ss.items) > 0
                 /\ ss.items[1].secretOk /\ Utf8Valid(ss.items[1].bytes))
                  => /\ cred.kind = "Token"
                     /\ cred.user = username
                     /\ cred.secret = ss.items[1].bytes
                     /\ cred.touched = {"secret_service"}
        ELSE /\ cred.kind = "KeyPair"
             /\ cred.user = "git"
             /\ cred.privatekey = "~/.ssh/id_rsa"
             /\ cred.publickey = "~/.ssh/id_rsa.pub"
             /\ cred.touched = {"ssh_key_paths"}

\* an https url has resolved to the token of a username other than "git"
C9_Witness ==
    /\ pc = "cred_done"
    /\ HttpsUrl(url)
    /\ cred.kind = "Token"
    /\ cred.user = "bob"
    /\ cred.secret = <<195, 169>>

\* C10: for an https url git_credentials returns an error, and does not crash,
\* when the secret service cannot be reached, when the search matches no item
\* and when the item has no retrievable secret.
C10_ErrorsNotCrashes ==
    (pc = "cred_done" /\ HttpsUrl(url)) =>
        /\ ~ss.reachable => (cred.kind = "Err" /\ cred.msg = MsgUnableToConnect)
        /\ (ss.reachable /\ (~ss.searchOk \/ Len(ss.items) = 0))
              => (cred.kind = "Err" /\ cred.msg = MsgNotInStore)
        /\ (ss.reachable /\ ss.searchOk /\ Len(ss.items) > 0 /\ ~ss.items[1].secretOk)
              => (cred.kind = "Err" /\ cred.msg = MsgMissingToken)


\* the fetches performed so far
Fetches == {i \in 1..Len(net) : net[i].op = "fetch"}

\* the pushes performed so far
Pushes == {i \in 1..Len(net) : net[i].op = "push"}

\* a pass is running or has completed
InPasses == pc \in {"sync_files", "statuses", "commit_updates", "push_master", "tick_wait"}

\* the process has terminated
Terminated == pc \in {"exited", "panicked"}

\* the first pass has reconciled and the home directory is as it found it
FirstPassReconciled ==
    ticks = 0 /\ pc \in {"statuses", "commit_updates", "push_master"}

\* C11: a run fetches and resets at most once, after init_storage and before
\* the first sync_files, and exactly once when it gets to a pass; no tick
\* fetches or resets, so a commit that reaches the remote after the start
\* never reaches the tracking reference, HEAD or the store.
C11_ResetOnce ==
    /\ Cardinality(Fetches) <= 1
    /\ (InPasses \/ hist.started > 0) => Cardinality(Fetches) = 1
    /\ Fetches # {} => storage = "dir"
    /\ \A i \in Pushes : \E j \in Fetches : j < i
    /\ \A p \in Paths : store[p] # RemoteContent
    /\ \A r \in RefNames : refs[r].id # -1 /\ refs[r].tree[P_vimrc] # RemoteContent

\* a pass after a tick has reconciled although the remote has a new commit
C11_Witness ==
    /\ pc = "statuses"
    /\ ticks > 0
    /\ remote[RefMaster].tree[P_vimrc] = RemoteContent
    /\ refs[RefOrigin] # remote[RefMaster]
    /\ Cardinality(Fetches) = 1

\* C12: once an operation has failed the process is terminated with a
\* non-zero exit status, and nothing runs after it.
C12_ErrorsAreFatal ==
    hist.failed # "none" =>
        /\ Terminated
        /\ exitCode \in {1, 101}
        /\ ~ENABLED Next

\* the push of a pass after a tick has failed and the process has exited
C12_Witness ==
    /\ hist.failed = "push_master"
    /\ pc = "exited"
    /\ exitCode = 1
    /\ ticks > 0

\* C13: two consecutive passes with no change of the home directory between
\* them both find the status empty, and the second creates no commit.
C13_BothClean ==
    (PassCompleted /\ hist.prevDirty # "none" /\ ~hist.intervening) =>
        /\ hist.prevDirty = "clean"
        /\ passDirty = "clean"
        /\ passCommits = 0

\* C13, amended: of two consecutive passes with no change of the home
\* directory between them, the first without a warning, the second finds the
\* status empty and creates no commit.
C13_SecondPassClean ==
    (/\ pc \in {"commit_updates", "push_master", "tick_wait"}
     /\ hist.prevDirty # "none"
     /\ ~hist.intervening
     /\ ~hist.prevWarned)
        => passDirty = "clean" /\ passCommits = 0

\* a pass has committed and the next, with the home directory unchanged, has pushed
C13_Witness ==
    /\ PassCompleted
    /\ hist.prevDirty = "dirty"
    /\ ~hist.intervening
    /\ ~hist.prevWarned
    /\ passDirty = "clean"
    /\ passPushes = 1

\* C14: every file of the remote master that the home directory lacks is in
\* the store after the reset and gone after the first sync_files, and the first
\* pass finds the status non-empty.
C14_AbsenceWins ==
    FirstPassReconciled =>
        \A p \in TreePaths :
            (remote[RefMaster].tree[p] # NoFile /\ home[p] = NoFile) =>
                /\ before[p] # NoFile
                /\ store[p] = NoFile
                /\ pc # "statuses" => passDirty = "dirty"

\* C14, amended: the same for the files with no component beginning with
\* ".git" and no warning.
C14_AbsenceWinsTracked ==
    FirstPassReconciled =>
        \A p \in TreePaths :
            (/\ remote[RefMaster].tree[p] # NoFile /\ home[p] = NoFile
             /\ ~DotGitNamed(p) /\ p \notin warned) =>
                /\ before[p] # NoFile
                /\ store[p] = NoFile
                /\ pc # "statuses" => passDirty = "dirty"

\* the first pass has removed a file of the remote master and goes on to commit
C14_Witness ==
    /\ pc = "commit_updates"
    /\ ticks = 0
    /\ remote[RefMaster].tree[P_bashrc] # NoFile
    /\ home[P_bashrc] = NoFile
    /\ before[P_bashrc] # NoFile
    /\ store[P_bashrc] = NoFile
    /\ passDirty = "dirty"

\* C15: when every pass so far has found the status non-empty, every pass
\* has added one commit and nothing has been pushed; and a pass that pushes is
\* one whose sync_files changed nothing in the store.
C15_Starvation ==
    /\ (PassCompleted /\ hist.dirty = hist.started) =>
           (nextId - 2 = hist.started /\ Pushes = {})
    /\ (InPasses /\ passPushes > 0) => store = before

\* C15, amended: ... and a pass that pushes is one that found the status
\* empty: the working tree after its sync_files is the tree of HEAD.
C15_StarvationByStatus ==
    /\ (PassCompleted /\ hist.dirty = hist.started) =>
           (nextId - 2 = hist.started /\ Pushes = {})
    /\ (InPasses /\ passPushes > 0) =>
           (passDirty = "clean" /\ TreeOf(store) = refs[RefMaster].tree)

\* two passes have both committed and nothing has been pushed
C15_Witness ==
    /\ PassCompleted
    /\ hist.started = 2
    /\ hist.dirty = 2
    /\ nextId = 4
    /\ Pushes = {}

\* C16: the first pass starts after the reset with no tick received; every
\* later pass starts after the pass before has completed and a tick has been
\* received since; the passes started never exceed 1 + the ticks received.
C16_PassScheduling ==
    /\ hist.started <= 1 + ticks
    /\ pc \in {"init_storage", "reset_master"} => (hist.started = 0 /\ ticks = 0)
    /\ pc = "sync_files" => hist.started = ticks
    /\ pc \in {"statuses", "commit_updates", "push_master", "tick_wait"}
          => hist.started = ticks + 1
    /\ (pc = "sync_files" /\ ticks > 0) => hist.prevDirty \in {"dirty", "clean"}

\* the pass after the first tick has started
C16_Witness ==
    /\ pc = "statuses"
    /\ ticks = 1
    /\ hist.started = 2

\* C17: the token a fetch or a push hands to the transport is the one the
\* secret service holds at that operation, with the configured username.
C17_NoCredentialCache ==
    [][(Len(net') = Len(net) + 1 /\ net'[Len(net')].cred.kind = "Token") =>
          /\ Len(ss.items) > 0
          /\ net'[Len(net')].cred.secret = ss.items[1].bytes
          /\ net'[Len(net')].cred.user = username]_vars

\* two pushes have used different tokens
C17_Witness ==
    \E i \in Pushes, j \in Pushes :
        /\ i < j
        /\ net[i].cred.kind = "Token"
        /\ net[j].cred.kind = "Token"
        /\ net[i].cred.secret # net[j].cred.secret

\* C18: from the first sync_files on, no step of the program creates a file
\* in the store: a path the store lacks stays lacking.
C18_NeverStartsTracking ==
    [][pc \notin {"init_storage", "reset_master"} =>
          \A p \in Paths : store[p] = NoFile => store'[p] = NoFile]_vars

\* a pass after a tick has reconciled other files and left a file that only
\* the home directory has out of the store
C18_Witness ==
    /\ Reconciled
    /\ ticks > 0
    /\ walked # {}
    /\ home[P_vimrc] # NoFile
    /\ store[P_vimrc] = NoFile

\* C19: no step of the program changes a file of the home directory.
C19_HomeUntouched ==
    [][pc' # pc => home' = home]_vars

\* sync_files has copied one file and removed another, out of a home
\* directory that differed from the store
C19_Witness ==
    /\ Reconciled
    /\ before[P_vimrc] # NoFile
    /\ home[P_vimrc] # NoFile
    /\ before[P_vimrc] # home[P_vimrc]
    /\ store[P_vimrc] = home[P_vimrc]
    /\ before[P_bashrc] # NoFile
    /\ home[P_bashrc] = NoFile
    /\ store[P_bashrc] = NoFile

====
